---------------------------- MODULE Spec2Model ----------------------------
(***************************************************************************)
(* Model of vessel_efficiency_app.py: the emission/cost functions, the     *)
(* degradation multiplier, NPV and payback, and the top-level script that  *)
(* builds the Baseline, Tech Upgrade and fuel-switch scenarios.            *)
(*                                                                         *)
(* Python numbers are modelled as exact decimals: a signed magnitude of    *)
(* base-10^4 limbs (least significant first) with FracLimbs fractional     *)
(* limbs, i.e. 16 decimal places.  Every product the script forms has at   *)
(* most 13 decimal places (8 from 1.01^4, 2 from the efficiency gain, 3    *)
(* from the emission factor), so +, - and * are exact on the values the    *)
(* model reaches; the rounding of IEEE doubles is abstracted away.         *)
(***************************************************************************)
EXTENDS Integers, Sequences, FiniteSets, TLC

---------------------------------------------------------------------------
(* Exact arithmetic                                                        *)

Base == 100 * 100
FracLimbs == 2 + 2

RECURSIVE Strip(_)
Strip(a) ==
    IF a = <<>> THEN <<>>
    ELSE IF a[Len(a)] = 0 THEN Strip(SubSeq(a, 1, Len(a) - 1))
    ELSE a

Hd(a) == IF a = <<>> THEN 0 ELSE Head(a)
Tl(a) == IF a = <<>> THEN <<>> ELSE Tail(a)

RECURSIVE MagOf(_)
MagOf(n) == IF n = 0 THEN <<>> ELSE <<n % Base>> \o MagOf(n \div Base)

RECURSIVE MagAddC(_, _, _)
MagAddC(a, b, c) ==
    IF a = <<>> /\ b = <<>> THEN (IF c = 0 THEN <<>> ELSE <<c>>)
    ELSE LET x == Hd(a) + Hd(b) + c
         IN  <<x % Base>> \o MagAddC(Tl(a), Tl(b), x \div Base)

MagAdd(a, b) == MagAddC(a, b, 0)

RECURSIVE MagSubB(_, _, _)
MagSubB(a, b, br) ==
    IF a = <<>> THEN <<>>
    ELSE LET x == Head(a) - Hd(b) - br
         IN  IF x < 0 THEN <<x + Base>> \o MagSubB(Tail(a), Tl(b), 1)
             ELSE <<x>> \o MagSubB(Tail(a), Tl(b), 0)

\* a - b for magnitudes with a >= b
MagSub(a, b) == Strip(MagSubB(a, b, 0))

RECURSIVE MagCmpFrom(_, _, _)
MagCmpFrom(a, b, i) ==
    IF i = 0 THEN 0
    ELSE IF a[i] < b[i] THEN -1
    ELSE IF a[i] > b[i] THEN 1
    ELSE MagCmpFrom(a, b, i - 1)

MagCmp(a, b) ==
    IF Len(a) < Len(b) THEN -1
    ELSE IF Len(a) > Len(b) THEN 1
    ELSE MagCmpFrom(a, b, Len(a))

RECURSIVE MagMulSmall(_, _, _)
MagMulSmall(a, k, c) ==
    IF a = <<>> THEN (IF c = 0 THEN <<>> ELSE <<c>>)
    ELSE LET x == Head(a) * k + c
         IN  <<x % Base>> \o MagMulSmall(Tail(a), k, x \div Base)

RECURSIVE MagMulR(_, _)
MagMulR(a, b) ==
    IF b = <<>> THEN <<>>
    ELSE IF Head(b) = 0 THEN <<0>> \o MagMulR(a, Tail(b))
    ELSE MagAdd(MagMulSmall(a, Head(b), 0), <<0>> \o MagMulR(a, Tail(b)))

MagMul(a, b) == Strip(MagMulR(a, b))

Signed(neg, mag) == [neg |-> neg /\ mag # <<>>, mag |-> mag]

Abs(n) == IF n < 0 THEN -n ELSE n

\* the integer n as an integer-valued signed magnitude
ZOf(n) == Signed(n < 0, MagOf(Abs(n)))

Zero == Signed(FALSE, <<>>)

Neg(a) == Signed(~a.neg, a.mag)

Add(a, b) ==
    IF a.neg = b.neg THEN Signed(a.neg, MagAdd(a.mag, b.mag))
    ELSE IF MagCmp(a.mag, b.mag) >= 0 THEN Signed(a.neg, MagSub(a.mag, b.mag))
    ELSE Signed(b.neg, MagSub(b.mag, a.mag))

Sub(a, b) == Add(a, Neg(b))

\* product of two integer-valued signed magnitudes
ZMul(a, b) == Signed(a.neg # b.neg, MagMul(a.mag, b.mag))

RECURSIVE ZPow(_, _)
ZPow(a, k) == IF k = 0 THEN ZOf(1) ELSE ZMul(a, ZPow(a, k - 1))

Sign(a) == IF a.mag = <<>> THEN 0 ELSE IF a.neg THEN -1 ELSE 1

Cmp(a, b) == Sign(Sub(a, b))

Ge(a, b) == Cmp(a, b) >= 0

Gt(a, b) == Cmp(a, b) > 0

RECURSIVE Zeros(_)
Zeros(k) == IF k = 0 THEN <<>> ELSE <<0>> \o Zeros(k - 1)

DropLow(mag, k) == IF Len(mag) <= k THEN <<>> ELSE SubSeq(mag, k + 1, Len(mag))

\* the integer n as a decimal
R(n) == Signed(n < 0, IF n = 0 THEN <<>> ELSE Zeros(FracLimbs) \o MagOf(Abs(n)))

\* product of two decimals
Mul(a, b) == Signed(a.neg # b.neg, Strip(DropLow(MagMulR(a.mag, b.mag), FracLimbs)))

\* product of a decimal and an integer-valued signed magnitude
MulZ(a, z) == Signed(a.neg # z.neg, MagMul(a.mag, z.mag))

RECURSIVE Pow(_, _)
Pow(a, k) == IF k = 0 THEN R(1) ELSE Mul(a, Pow(a, k - 1))

RECURSIVE IntPow(_, _)
IntPow(b, k) == IF k = 0 THEN 1 ELSE b * IntPow(b, k - 1)

\* the decimal literal m * 10^-digits, digits <= 4 * FracLimbs
Lit(m, digits) ==
    LET k == 4 * FracLimbs - digits
    IN  Signed(m < 0, MagMul(MagOf(Abs(m)), Zeros(k \div 4) \o <<IntPow(10, k % 4)>>))

---------------------------------------------------------------------------
(* Python values other than numbers                                        *)

PyInt(n) == [int |-> n]

PyStr(s) == [str |-> s]

KeyError(k) == [exc |-> "KeyError", key |-> k]

ZeroDivisionError == [exc |-> "ZeroDivisionError"]

IsError(v) == "exc" \in DOMAIN v

(* A dict is the sequence of its items, in insertion order.                 *)
Keys(d) == [i \in 1..Len(d) |-> d[i].key]

Has(d, k) == \E i \in 1..Len(d) : d[i].key = k

Get(d, k) == d[CHOOSE i \in 1..Len(d) : d[i].key = k].val

\* d[k] = v
Put(d, k, v) ==
    IF Has(d, k) THEN [i \in 1..Len(d) |-> IF d[i].key = k THEN [key |-> k, val |-> v] ELSE d[i]]
    ELSE Append(d, [key |-> k, val |-> v])

\* d.get(k, default)
GetOr(d, k, default) == IF Has(d, k) THEN Get(d, k) ELSE default

SubscriptDefault(d, k) == GetOr(d, k, Zero)

\* d[k]
Subscript(d, k) == IF Has(d, k) THEN Get(d, k) ELSE KeyError(k)

---------------------------------------------------------------------------
(* Constants                                                               *)

EMISSION_FACTORS ==
    << [key |-> "VLSFO",    val |-> Lit(3114, 3)],
       [key |-> "MGO",      val |-> Lit(3206, 3)],
       [key |-> "LNG",      val |-> Lit(2750, 3)],
       [key |-> "Methanol", val |-> Lit(1375, 3)],
       [key |-> "Ammonia",  val |-> Lit(0, 3)] >>

FUEL_PRICES ==
    << [key |-> "VLSFO",    val |-> R(600)],
       [key |-> "MGO",      val |-> R(700)],
       [key |-> "LNG",      val |-> R(800)],
       [key |-> "Methanol", val |-> R(900)],
       [key |-> "Ammonia",  val |-> R(1000)] >>

DISCOUNT_RATE == [num |-> 7, den |-> 100]

YEARS == 10

EFFICIENCY_DEGRADATION_RATE == Lit(1, 2)

DRYDOCK_CYCLE == 5

---------------------------------------------------------------------------
(* Functions                                                               *)

calculate_emissions(fuel_type, fuel_consumed) ==
    LET factor == Subscript(EMISSION_FACTORS, fuel_type)
    IN  IF IsError(factor) THEN factor ELSE Mul(fuel_consumed, factor)

calculate_carbon_tax(emissions, tax_rate) == Mul(emissions, tax_rate)

\* the gain taken for the remaining share: base_fuel * efficiency_gain
ApplyGainOnly(base_fuel, efficiency_gain) == Mul(base_fuel, efficiency_gain)

apply_tech_efficiency_reduction(base_fuel, efficiency_gain) ==
    Mul(base_fuel, Sub(R(1), efficiency_gain))

DegradationNoReset(year) == Pow(Add(R(1), EFFICIENCY_DEGRADATION_RATE), year)

get_degradation_multiplier(year) ==
    Pow(Add(R(1), EFFICIENCY_DEGRADATION_RATE), year % DRYDOCK_CYCLE)

\* fuel * FUEL_PRICES[fuel_type]
fuel_cost(fuel_type, fuel) ==
    LET price == Subscript(FUEL_PRICES, fuel_type)
    IN  IF IsError(price) THEN price ELSE Mul(fuel, price)

(* sum(cf / ((1 + discount_rate) ** i) for i, cf in enumerate(cash_flows)).  *)
(* The rate is a fraction num/den, so 1 + rate = n/d with n = den + num and  *)
(* d = den; the running sum after index i is kept exactly as acc.num / n^i.  *)
(* (1 + rate) ** i is 0 only for n = 0 and i >= 1, where the division fails. *)
RECURSIVE NpvSum(_, _, _, _, _)
NpvSum(cash_flows, n, d, i, acc) ==
    IF i >= Len(cash_flows) THEN acc
    ELSE IF i > 0 /\ n = 0 THEN ZeroDivisionError
    ELSE LET k    == IF i = 0 THEN ZOf(1) ELSE ZOf(n)
             term == MulZ(cash_flows[i + 1], ZPow(ZOf(d), i))
         IN  NpvSum(cash_flows, n, d, i + 1,
                    [num |-> Add(MulZ(acc.num, k), term), den |-> ZMul(acc.den, k)])

\* every year discounted one year too many: cf / (1 + discount_rate) ** (i + 1)
NpvShifted(cash_flows, discount_rate) ==
    NpvSum(<<Zero>> \o cash_flows, discount_rate.den + discount_rate.num, discount_rate.den,
           0, [num |-> Zero, den |-> ZOf(1)])

calculate_npv(cash_flows, discount_rate) ==
    NpvSum(cash_flows, discount_rate.den + discount_rate.num, discount_rate.den,
           0, [num |-> Zero, den |-> ZOf(1)])

RECURSIVE PaybackLoop(_, _, _)
PaybackLoop(cash_flows, i, cumulative) ==
    IF i >= Len(cash_flows) THEN PyStr("> " \o ToString(YEARS))
    ELSE LET c == Add(cumulative, cash_flows[i + 1])
         IN  IF Ge(c, Zero) THEN PyInt(i + 1)
             ELSE PaybackLoop(cash_flows, i + 1, c)

PaybackStrict(cash_flows) ==
    LET RECURSIVE Loop(_, _)
        Loop(i, cumulative) ==
            IF i >= Len(cash_flows) THEN PyStr("> " \o ToString(YEARS))
            ELSE LET c == Add(cumulative, cash_flows[i + 1])
                 IN  IF Gt(c, Zero) THEN PyInt(i + 1) ELSE Loop(i + 1, c)
    IN  Loop(0, Zero)

calculate_payback_period(cash_flows) == PaybackLoop(cash_flows, 0, Zero)

---------------------------------------------------------------------------
(* The script: state                                                       *)

VARIABLES
    vessel,           \* Vessel(dwt, fuel_type, annual_fuel_consumption)
    tax_rate,         \* sidebar inputs: Python ints
    opex,
    capex,
    efficiency_gain,  \* slider value, in steps of 0.01 (the number of hundredths)
    heap,             \* the list objects: heap[id] is the content of list id
    emissions,        \* the names emissions, costs, cash_flows: ids of lists (0: unbound)
    costs,
    cash_flows,
    scenarios,        \* dict label -> [emissions |-> id, costs |-> id]
    npv_summary,      \* dict label -> NPV
    payback_summary,  \* dict label -> payback period
    pc,               \* position in the script
    year,             \* loop variable of the running for-loop
    alt_idx,          \* number of keys of EMISSION_FACTORS the alt_fuel loop has taken
    table,            \* the summary table handed to st.table
    exception,        \* the exception that ended the script, if any
    call,             \* a pending call of one of the functions, with its arguments
    ret               \* what that call returned

inputs == <<vessel, tax_rate, opex, capex, efficiency_gain>>

names == <<emissions, costs, cash_flows>>

summaries == <<scenarios, npv_summary, payback_summary>>

vars == <<vessel, tax_rate, opex, capex, efficiency_gain, heap, emissions, costs,
          cash_flows, scenarios, npv_summary, payback_summary, pc, year, alt_idx,
          table, exception, call, ret>>

NoCall == [fn |-> "none"]

NoRet == [none |-> TRUE]

NoTable == [Scenario |-> <<>>, Payback |-> <<>>, shown |-> FALSE]

NoException == [none |-> TRUE]

\* values the sidebar can supply (number_input sets no minimum; the slider is 0.0..0.5)
FuelChoices == {EMISSION_FACTORS[i].key : i \in 1..Len(EMISSION_FACTORS)}

Consumptions == {-10000, 0, 10000}

TaxRates == {-1000, 100}

Opexes == {-20000, 20000}

Capexes == {-500000, 500000}

Gains == {10, 50}

ScriptStart ==
    /\ heap = <<>>
    /\ emissions = 0 /\ costs = 0 /\ cash_flows = 0
    /\ scenarios = <<>> /\ npv_summary = <<>> /\ payback_summary = <<>>
    /\ pc = "baseline" /\ year = 0 /\ alt_idx = 0
    /\ table = NoTable
    /\ exception = NoException

Init ==
    /\ \E f \in FuelChoices, c \in Consumptions :
          vessel = [dwt |-> 50000, fuel_type |-> f, annual_fuel_consumption |-> c]
    /\ tax_rate \in TaxRates
    /\ opex \in Opexes
    /\ capex \in Capexes
    /\ efficiency_gain \in Gains
    /\ ScriptStart
    /\ call = NoCall /\ ret = NoRet

---------------------------------------------------------------------------
(* The script: steps                                                       *)

\* emissions, costs, cash_flows = [], [], []  with the lists of the previous
\* scenario cleared and reused instead of three new ones
ClearLists(h, e, c, cf) ==
    IF e = 0 THEN [heap |-> h \o << <<>>, <<>>, <<>> >>,
                   emissions |-> Len(h) + 1, costs |-> Len(h) + 2, cash_flows |-> Len(h) + 3]
    ELSE [heap |-> [i \in 1..Len(h) |-> IF i \in {e, c, cf} THEN <<>> ELSE h[i]],
          emissions |-> e, costs |-> c, cash_flows |-> cf]

\* emissions, costs, cash_flows = [], [], []
NewLists(h, e, c, cf) ==
    [heap |-> h \o << <<>>, <<>>, <<>> >>,
     emissions |-> Len(h) + 1, costs |-> Len(h) + 2, cash_flows |-> Len(h) + 3]

BindNewLists ==
    LET n == NewLists(heap, emissions, costs, cash_flows)
    IN  /\ heap' = n.heap
        /\ emissions' = n.emissions
        /\ costs' = n.costs
        /\ cash_flows' = n.cash_flows

CapexEveryYear(y) == R(capex)

\* (capex if year == 0 else 0)
CapexAt(y) == IF y = 0 THEN R(capex) ELSE Zero

NoCapex(y) == Zero

CashFlowUnsigned(total) == total

\* cash_flows.append(-total)
CashFlow(total) == Neg(total)

\* vessel.annual_fuel_consumption * mult
DegradedFuel(y) == Mul(R(vessel.annual_fuel_consumption), get_degradation_multiplier(y))

\* the fuel burnt in year y of the scenario kind
FuelOf(kind, y) ==
    IF kind = "tech" THEN apply_tech_efficiency_reduction(DegradedFuel(y), Lit(efficiency_gain, 2))
    ELSE DegradedFuel(y)

\* e, t, fc and total of one year; a failed lookup propagates
YearBody(fuel_type, fuel, capex_term) ==
    LET e == calculate_emissions(fuel_type, fuel)
    IN  IF IsError(e) THEN e
        ELSE LET t  == calculate_carbon_tax(e, R(tax_rate))
                 fc == fuel_cost(fuel_type, fuel)
             IN  IF IsError(fc) THEN fc
                 ELSE [e |-> e, t |-> t, fc |-> fc,
                       total |-> Add(Add(Add(fc, t), R(opex)), capex_term)]

\* one iteration of a year loop: append to the three lists, or stop on an exception
YearStep(fuel_type, fuel, capex_term) ==
    LET r == YearBody(fuel_type, fuel, capex_term)
    IN  IF IsError(r)
        THEN /\ pc' = "raised"
             /\ exception' = r
             /\ UNCHANGED <<heap, year>>
        ELSE /\ heap' = [heap EXCEPT ![emissions]  = Append(@, r.e),
                                     ![costs]      = Append(@, r.total),
                                     ![cash_flows] = Append(@, CashFlow(r.total))]
             /\ year' = year + 1
             /\ UNCHANGED <<pc, exception>>

BaselineBegin ==
    /\ pc = "baseline"
    /\ BindNewLists
    /\ year' = 0
    /\ pc' = "baseline_loop"
    /\ UNCHANGED <<inputs, summaries, alt_idx, table, exception, call, ret>>

BaselineYear ==
    /\ pc = "baseline_loop"
    /\ year < YEARS
    /\ YearStep(vessel.fuel_type, FuelOf("baseline", year), NoCapex(year))
    /\ UNCHANGED <<inputs, names, summaries, alt_idx, table, call, ret>>

BaselineEnd ==
    /\ pc = "baseline_loop"
    /\ year = YEARS
    /\ scenarios' = Put(scenarios, "Baseline", [emissions |-> emissions, costs |-> costs])
    /\ npv_summary' = Put(npv_summary, "Baseline", calculate_npv(heap[cash_flows], DISCOUNT_RATE))
    /\ pc' = "tech"
    /\ UNCHANGED <<inputs, heap, names, payback_summary, year, alt_idx, table, exception, call, ret>>

TechBegin ==
    /\ pc = "tech"
    /\ BindNewLists
    /\ year' = 0
    /\ pc' = "tech_loop"
    /\ UNCHANGED <<inputs, summaries, alt_idx, table, exception, call, ret>>

TechYear ==
    /\ pc = "tech_loop"
    /\ year < YEARS
    /\ YearStep(vessel.fuel_type, FuelOf("tech", year), CapexAt(year))
    /\ UNCHANGED <<inputs, names, summaries, alt_idx, table, call, ret>>

TechEnd ==
    /\ pc = "tech_loop"
    /\ year = YEARS
    /\ scenarios' = Put(scenarios, "Tech Upgrade", [emissions |-> emissions, costs |-> costs])
    /\ npv_summary' = Put(npv_summary, "Tech Upgrade", calculate_npv(heap[cash_flows], DISCOUNT_RATE))
    /\ payback_summary' = Put(payback_summary, "Tech Upgrade", calculate_payback_period(heap[cash_flows]))
    /\ pc' = "alt_for"
    /\ alt_idx' = 0
    /\ UNCHANGED <<inputs, heap, names, year, table, exception, call, ret>>

\* the alt_fuel the for-loop over EMISSION_FACTORS holds
alt_fuel == Keys(EMISSION_FACTORS)[alt_idx]

NeverSkip(f) == FALSE

\* if alt_fuel == vessel.fuel_type: continue
SkipFuel(f) == f = vessel.fuel_type

SwitchLabel(f) == "Switch to " \o f

AltSkip ==
    /\ pc = "alt_for"
    /\ alt_idx < Len(EMISSION_FACTORS)
    /\ SkipFuel(Keys(EMISSION_FACTORS)[alt_idx + 1])
    /\ alt_idx' = alt_idx + 1
    /\ UNCHANGED <<inputs, heap, names, summaries, pc, year, table, exception, call, ret>>

AltBegin ==
    /\ pc = "alt_for"
    /\ alt_idx < Len(EMISSION_FACTORS)
    /\ ~SkipFuel(Keys(EMISSION_FACTORS)[alt_idx + 1])
    /\ alt_idx' = alt_idx + 1
    /\ BindNewLists
    /\ year' = 0
    /\ pc' = "alt_loop"
    /\ UNCHANGED <<inputs, summaries, table, exception, call, ret>>

AltYear ==
    /\ pc = "alt_loop"
    /\ year < YEARS
    /\ YearStep(alt_fuel, FuelOf("alt", year), CapexAt(year))
    /\ UNCHANGED <<inputs, names, summaries, alt_idx, table, call, ret>>

AltEnd ==
    /\ pc = "alt_loop"
    /\ year = YEARS
    /\ LET label == SwitchLabel(alt_fuel)
       IN  /\ scenarios' = Put(scenarios, label, [emissions |-> emissions, costs |-> costs])
           /\ npv_summary' = Put(npv_summary, label, calculate_npv(heap[cash_flows], DISCOUNT_RATE))
           /\ payback_summary' = Put(payback_summary, label, calculate_payback_period(heap[cash_flows]))
    /\ pc' = "alt_for"
    /\ UNCHANGED <<inputs, heap, names, year, alt_idx, table, exception, call, ret>>

PaybackCellNpv(k) == Get(npv_summary, k)

\* payback_summary.get(k, "-")
PaybackCell(k) == GetOr(payback_summary, k, PyStr("-"))

\* the "Scenario" and "Payback Period (years)" columns of the summary table
ShowSummary ==
    /\ pc = "alt_for"
    /\ alt_idx = Len(EMISSION_FACTORS)
    /\ table' = [Scenario |-> Keys(npv_summary),
                 Payback  |-> [i \in 1..Len(npv_summary) |-> PaybackCell(npv_summary[i].key)],
                 shown    |-> TRUE]
    /\ pc' = "done"
    /\ UNCHANGED <<inputs, heap, names, summaries, year, alt_idx, exception, call, ret>>

Next ==
    \/ BaselineBegin \/ BaselineYear \/ BaselineEnd
    \/ TechBegin \/ TechYear \/ TechEnd
    \/ AltSkip \/ AltBegin \/ AltYear \/ AltEnd
    \/ ShowSummary

Spec == Init /\ [][Next]_vars

---------------------------------------------------------------------------
(* The functions called on their own                                       *)

MaxLen == 3

MaxFlow == 2

MaxRate == 2

MaxYear == 12

Flows == {R(k) : k \in -MaxFlow..MaxFlow}

FlowSeqs == UNION {[1..n -> Flows] : n \in 0..MaxLen}

\* discount rates num/den; -1 is among them
Rates == {[num |-> n, den |-> d] : n \in -MaxRate..MaxRate, d \in {1, 2}} \cup {DISCOUNT_RATE}

\* strings that are no key of the tables
OtherFuels == {"HFO", "vlsfo", ""}

Calls ==
    {[fn |-> "calculate_payback_period", cash_flows |-> s] : s \in FlowSeqs}
    \cup {[fn |-> "calculate_npv", cash_flows |-> s, discount_rate |-> r] :
             s \in FlowSeqs, r \in Rates}
    \cup {[fn |-> "calculate_emissions", fuel_type |-> f, fuel_consumed |-> q] :
             f \in FuelChoices \cup OtherFuels, q \in Flows}
    \cup {[fn |-> "fuel_cost", fuel_type |-> f, fuel |-> q] :
             f \in FuelChoices \cup OtherFuels, q \in Flows}
    \cup {[fn |-> "get_degradation_multiplier", year |-> y] : y \in 0..MaxYear}

FnInit ==
    /\ vessel = [dwt |-> 50000, fuel_type |-> "VLSFO", annual_fuel_consumption |-> 10000]
    /\ tax_rate = 100 /\ opex = 20000 /\ capex = 500000 /\ efficiency_gain = 10
    /\ ScriptStart
    /\ call \in Calls
    /\ ret = NoRet

Returns(v) ==
    /\ ret = NoRet
    /\ ret' = [val |-> v]
    /\ UNCHANGED <<inputs, heap, names, summaries, pc, year, alt_idx, table, exception, call>>

CallPayback ==
    /\ call.fn = "calculate_payback_period"
    /\ Returns(calculate_payback_period(call.cash_flows))

CallNpv ==
    /\ call.fn = "calculate_npv"
    /\ Returns(calculate_npv(call.cash_flows, call.discount_rate))

CallEmissions ==
    /\ call.fn = "calculate_emissions"
    /\ Returns(calculate_emissions(call.fuel_type, call.fuel_consumed))

CallFuelCost ==
    /\ call.fn = "fuel_cost"
    /\ Returns(fuel_cost(call.fuel_type, call.fuel))

CallDegradation ==
    /\ call.fn = "get_degradation_multiplier"
    /\ Returns(get_degradation_multiplier(call.year))

FnNext == CallPayback \/ CallNpv \/ CallEmissions \/ CallFuelCost \/ CallDegradation

FnSpec == FnInit /\ [][FnNext]_vars

Returned(fn) == call.fn = fn /\ ret # NoRet

---------------------------------------------------------------------------
(* Claims about the functions (under FnSpec)                               *)

RECURSIVE PrefixSum(_, _)
PrefixSum(s, i) == IF i = 0 THEN Zero ELSE Add(PrefixSum(s, i - 1), s[i])

\* the 1-based positions at which the running sum of s is >= 0
NonNegativeAt(s) == {i \in 1..Len(s) : Sign(PrefixSum(s, i)) >= 0}

Least(S) == CHOOSE i \in S : \A j \in S : i <= j

\* C3: calculate_payback_period returns i+1 for the first 0-based index i whose
\* running sum (from 0) is >= 0, and the non-numeric sentinel "> 10" when no
\* index has one; so an all-negative sequence gets the sentinel, and a sequence
\* with every entry <= 0 gets a number only if some flow is exactly 0.
C3_Payback ==
    Returned("calculate_payback_period") =>
        LET s    == call.cash_flows
            hits == NonNegativeAt(s)
        IN  /\ hits = {} => ret.val = PyStr("> 10")
            /\ hits # {} => ret.val = PyInt(Least(hits))
            /\ (\A i \in 1..Len(s) : Sign(s[i]) < 0) => ret.val = PyStr("> 10")
            /\ ((\A i \in 1..Len(s) : Sign(s[i]) <= 0) /\ "int" \in DOMAIN ret.val)
                  => \E i \in 1..Len(s) : s[i] = Zero

\* a payback found at the second year, after a negative first year
C3_Witness ==
    /\ Returned("calculate_payback_period")
    /\ Len(call.cash_flows) = MaxLen
    /\ Sign(call.cash_flows[1]) < 0
    /\ ret.val = PyInt(2)

\* C6: an emissions or fuel-price lookup for a fuel type that is no key of the
\* table fails with a KeyError naming that fuel type; it returns no number, and
\* the body of a year loop given that fuel yields the error and no e or total
\* to record.
C6_UnknownFuel ==
    ((Returned("calculate_emissions") \/ Returned("fuel_cost")) /\ call.fuel_type \notin FuelChoices)
        => /\ IsError(ret.val)
           /\ ret.val = KeyError(call.fuel_type)
           /\ "neg" \notin DOMAIN ret.val
           /\ Returned("calculate_emissions") =>
                 YearBody(call.fuel_type, call.fuel_consumed, Zero) = KeyError(call.fuel_type)

C6_Witness ==
    /\ Returned("calculate_emissions")
    /\ call.fuel_type = "HFO"
    /\ call.fuel_consumed = R(MaxFlow)
    /\ IsError(ret.val)

\* C7: get_degradation_multiplier(y) = 1.01^(y mod 5): it is >= 1, exactly 1 at
\* every multiple of the drydock cycle, strictly above the previous year's value
\* inside a cycle, and equal to the value of five years before.
C7_Degradation ==
    Returned("get_degradation_multiplier") =>
        LET y == call.year
            k == y % DRYDOCK_CYCLE
            m == ret.val
        IN  /\ m = Lit(IntPow(101, k) * IntPow(100, 4 - k), 8)
            /\ Ge(m, R(1))
            /\ (k = 0) => (m = R(1))
            /\ (k # 0) => Gt(m, get_degradation_multiplier(y - 1))
            /\ (y >= DRYDOCK_CYCLE) => (m = get_degradation_multiplier(y - DRYDOCK_CYCLE))

\* the first year of the second cycle: the multiplier is back at 1
C7_Witness ==
    /\ Returned("get_degradation_multiplier")
    /\ call.year = DRYDOCK_CYCLE
    /\ ret.val = R(1)

AllZero(s) == \A i \in 1..Len(s) : s[i] = Zero

RateIsMinusOne(r) == r.den + r.num = 0

\* C8 as claimed: calculate_npv returns a value for every cash-flow sequence and
\* every discount rate, and 0 for an all-zero sequence.
C8_Total ==
    Returned("calculate_npv") =>
        /\ ~IsError(ret.val)
        /\ AllZero(call.cash_flows) => ret.val.num = Zero

\* C8 (amended): calculate_npv returns a value whenever 1 + discount_rate is not
\* 0 or the sequence has at most one entry, and that value is 0 for an all-zero
\* sequence; with discount_rate = -1 and two or more entries it fails with
\* ZeroDivisionError.
C8_TotalUnlessMinusOne ==
    Returned("calculate_npv") =>
        LET s == call.cash_flows
            r == call.discount_rate
        IN  /\ (~RateIsMinusOne(r) \/ Len(s) <= 1) =>
                  /\ ~IsError(ret.val)
                  /\ AllZero(s) => ret.val.num = Zero
            /\ (RateIsMinusOne(r) /\ Len(s) >= 2) => ret.val = ZeroDivisionError

\* an all-zero sequence of full length at the script's own rate
C8_Witness ==
    /\ Returned("calculate_npv")
    /\ Len(call.cash_flows) = MaxLen
    /\ AllZero(call.cash_flows)
    /\ call.discount_rate = DISCOUNT_RATE
    /\ ret.val.num = Zero

---------------------------------------------------------------------------
(* Claims about the script (under Spec)                                    *)

Count(d, k) == Cardinality({i \in 1..Len(d) : d[i].key = k})

Done == pc = "done"

\* the stored series of the scenario with this label
EmissionsOf(label) == heap[Get(scenarios, label).emissions]

CostsOf(label) == heap[Get(scenarios, label).costs]

\* the default values of the sidebar
DefaultInputs ==
    /\ vessel = [dwt |-> 50000, fuel_type |-> "VLSFO", annual_fuel_consumption |-> 10000]
    /\ tax_rate = 100 /\ opex = 20000 /\ capex = 500000 /\ efficiency_gain = 10

\* C1: a run produces exactly one "Baseline", exactly one "Tech Upgrade" and
\* exactly one "Switch to f" for each fuel f other than the vessel's own:
\* 1 + 1 + (number of fuels - 1) = 6 scenarios; at no time is there a
\* "Switch to" scenario for the vessel's own fuel.
C1_ScenarioSet ==
    /\ Count(scenarios, SwitchLabel(vessel.fuel_type)) = 0
    /\ Done =>
          /\ Count(scenarios, "Baseline") = 1
          /\ Count(scenarios, "Tech Upgrade") = 1
          /\ \A f \in FuelChoices \ {vessel.fuel_type} : Count(scenarios, SwitchLabel(f)) = 1
          /\ Len(scenarios) = 1 + 1 + (Len(EMISSION_FACTORS) - 1)
          /\ Len(scenarios) = 6

C1_Witness ==
    /\ Done
    /\ vessel.fuel_type = "LNG"
    /\ Has(scenarios, "Switch to VLSFO")
    /\ ~Has(scenarios, "Switch to LNG")

\* what a label says about its scenario
KindOf(label) ==
    IF label = "Baseline" THEN "baseline" ELSE IF label = "Tech Upgrade" THEN "tech" ELSE "alt"

FuelTypeOf(label) ==
    IF label \in {"Baseline", "Tech Upgrade"} THEN vessel.fuel_type
    ELSE CHOOSE f \in FuelChoices : SwitchLabel(f) = label

\* fuel spend + carbon tax + OPEX of year y, and CAPEX in year 0 unless Baseline
CostByFormula(label, y) ==
    LET cons   == Mul(R(vessel.annual_fuel_consumption), Lit(IntPow(101, y % 5) * IntPow(100, 4 - (y % 5)), 8))
        fuel   == IF label = "Tech Upgrade" THEN Mul(cons, Lit(100 - efficiency_gain, 2)) ELSE cons
        spend  == Mul(fuel, Get(FUEL_PRICES, FuelTypeOf(label)))
        tax    == Mul(Mul(fuel, Get(EMISSION_FACTORS, FuelTypeOf(label))), R(tax_rate))
        invest == IF y = 0 /\ label # "Baseline" THEN R(capex) ELSE Zero
    IN  Add(Add(Add(spend, tax), R(opex)), invest)

\* C2: in every scenario and every year 0..YEARS-1 the total annual cost is fuel
\* spend + carbon tax + OPEX, plus CAPEX in year 0 only, in Tech Upgrade and in
\* every fuel switch, and in no year of Baseline.
C2_TotalCost ==
    Done => \A i \in 1..Len(scenarios) :
               LET label == scenarios[i].key
               IN  /\ Len(CostsOf(label)) = YEARS
                   /\ \A y \in 0..(YEARS - 1) : CostsOf(label)[y + 1] = CostByFormula(label, y)

\* years 0 and 5 have the same multiplier: their costs differ by the CAPEX alone
C2_Witness ==
    /\ Done
    /\ capex = 500000
    /\ Sub(CostsOf("Tech Upgrade")[1], CostsOf("Tech Upgrade")[6]) = R(capex)
    /\ CostsOf("Baseline")[1] = CostsOf("Baseline")[6]

IsYearCount(v) == "int" \in DOMAIN v /\ v.int \in 1..YEARS

IsSentinel(v) == v = PyStr("> 10")

\* C4 as claimed: every scenario, Baseline included, has an NPV and a payback
\* period, and every payback cell of the summary table is a year count or the
\* sentinel.
C4_EveryRow ==
    table.shown =>
        /\ Keys(npv_summary) = Keys(scenarios)
        /\ \A i \in 1..Len(scenarios) : Has(payback_summary, scenarios[i].key)
        /\ \A i \in 1..Len(table.Payback) :
              IsYearCount(table.Payback[i]) \/ IsSentinel(table.Payback[i])

\* C4 (amended): every scenario has an NPV; every scenario other than Baseline
\* has a payback period, shown in its row, which is a year count or the
\* sentinel; Baseline has none, and its row shows "-".
C4_EveryRowButBaseline ==
    table.shown =>
        /\ Keys(npv_summary) = Keys(scenarios)
        /\ table.Scenario = Keys(scenarios)
        /\ Len(table.Payback) = Len(table.Scenario)
        /\ \A i \in 1..Len(table.Scenario) :
              LET label == table.Scenario[i]
                  cell  == table.Payback[i]
              IN  IF label = "Baseline"
                  THEN ~Has(payback_summary, label) /\ cell = PyStr("-")
                  ELSE /\ Has(payback_summary, label)
                       /\ cell = Get(payback_summary, label)
                       /\ IsYearCount(cell) \/ IsSentinel(cell)

\* a table with a year count in one row and the sentinel in another
C4_Witness ==
    /\ table.shown
    /\ \E i, j \in 1..Len(table.Payback) :
          IsYearCount(table.Payback[i]) /\ IsSentinel(table.Payback[j])

\* the lists the names costs and cash_flows are bound to
Bound == cash_flows # 0

CashIsMinusCost ==
    Bound => /\ Len(heap[cash_flows]) = Len(heap[costs])
             /\ \A y \in 1..Len(heap[cash_flows]) : heap[cash_flows][y] = Neg(heap[costs][y])

NoPositiveCash == Bound => \A y \in 1..Len(heap[cash_flows]) : Sign(heap[cash_flows][y]) <= 0

\* C5 as claimed: every year's cash flow is the negated total cost of the year,
\* and every cash flow is <= 0 whatever the inputs.
C5_NeverPositive == CashIsMinusCost /\ NoPositiveCash

\* C5 (amended): every year's cash flow is the negated total cost of the year,
\* and every cash flow is <= 0 when consumption, tax rate, OPEX and CAPEX are
\* all >= 0.
C5_NeverPositiveForCosts ==
    /\ CashIsMinusCost
    /\ (vessel.annual_fuel_consumption >= 0 /\ tax_rate >= 0 /\ opex >= 0 /\ capex >= 0)
          => NoPositiveCash

\* a finished series of costs, all of them charged
C5_Witness ==
    /\ DefaultInputs
    /\ pc = "alt_loop"
    /\ Len(heap[cash_flows]) = YEARS
    /\ \A y \in 1..YEARS : Sign(heap[cash_flows][y]) < 0 /\ Sign(heap[costs][y]) > 0

\* C9: with the default inputs, year 0 has Baseline emissions 31140 and cost
\* 9,134,000, Tech Upgrade emissions 28026 and cost 8,722,600, and Switch to
\* Ammonia emissions 0 and cost 10,520,000.
C9_DefaultYear0 ==
    (DefaultInputs /\ Done) =>
        /\ EmissionsOf("Baseline")[1] = R(31140)
        /\ CostsOf("Baseline")[1] = R(9134000)
        /\ EmissionsOf("Tech Upgrade")[1] = R(28026)
        /\ CostsOf("Tech Upgrade")[1] = R(8722600)
        /\ EmissionsOf("Switch to Ammonia")[1] = Zero
        /\ CostsOf("Switch to Ammonia")[1] = R(10520000)

C9_Witness ==
    /\ DefaultInputs
    /\ Done
    /\ Has(scenarios, "Switch to Ammonia")
    /\ Len(EmissionsOf("Switch to Ammonia")) = YEARS

\* a stored scenario, its NPV and its payback period are the same after the step
StoredUnchanged ==
    /\ Len(scenarios') >= Len(scenarios)
    /\ \A i \in 1..Len(scenarios) :
          /\ scenarios'[i].key = scenarios[i].key
          /\ heap'[scenarios'[i].val.emissions] = heap[scenarios[i].val.emissions]
          /\ heap'[scenarios'[i].val.costs] = heap[scenarios[i].val.costs]
    /\ SubSeq(npv_summary', 1, Len(npv_summary)) = npv_summary
    /\ SubSeq(payback_summary', 1, Len(payback_summary)) = payback_summary

\* the scenario of this label computed on its own, from the inputs alone
Alone(label) ==
    LET body(y) == YearBody(FuelTypeOf(label), FuelOf(KindOf(label), y),
                            IF label = "Baseline" THEN NoCapex(y) ELSE CapexAt(y))
        cash    == [y \in 1..YEARS |-> CashFlow(body(y - 1).total)]
    IN  [emissions |-> [y \in 1..YEARS |-> body(y - 1).e],
         costs     |-> [y \in 1..YEARS |-> body(y - 1).total],
         npv       |-> calculate_npv(cash, DISCOUNT_RATE),
         payback   |-> calculate_payback_period(cash)]

ResultsAsAlone ==
    Done => \A i \in 1..Len(scenarios) :
               LET label == scenarios[i].key
                   alone == Alone(label)
               IN  /\ EmissionsOf(label) = alone.emissions
                   /\ CostsOf(label) = alone.costs
                   /\ Get(npv_summary, label) = alone.npv
                   /\ Has(payback_summary, label) => Get(payback_summary, label) = alone.payback

===========================================================================
